---- MODULE Spec2Model ----
(***************************************************************************)
(* A model of altalias (src/altalias.py), a maubot plugin that lets room   *)
(* members publish alternate aliases of a Matrix room.                     *)
(*                                                                         *)
(* Strings are sequences of one-character strings, so that len, index and  *)
(* slicing are the sequence operations.  Python's None is the value None   *)
(* below, which is no character sequence.                                  *)
(***************************************************************************)
EXTENDS Naturals, Sequences, FiniteSets

VARIABLES
    config,     \* self.config["rooms"] as persisted: room id -> pattern strings
    _rooms,     \* self._rooms: room id -> compiled patterns (RoomInfo.formats)
    last,       \* the last allow/reload handler run: its event and its outcome
    server,     \* the homeserver's m.room.canonical_alias content of each room
    pc,         \* handlers: the await point each one is suspended at
    evt,        \* handlers: the event being handled (room and alias, or room and regex)
    content,    \* add_alias handlers: existing_content, the local copy read
    reply,      \* add_alias handlers: how the handler ended (reply or exception)
    call        \* a direct call of a helper: its arguments and what it returned

vars == <<config, _rooms, last, server, pc, evt, content, reply, call>>

(***************************************************************************)
(* Bounds of the model.                                                    *)
(***************************************************************************)
\* longest string handed to _get_localpart on its own
MaxLen == 4
\* most pattern strings in the whole "rooms" configuration
MaxPatterns == 3
\* most alternate aliases in a canonical-alias record
MaxAlt == 2

\* the characters strings are made of when every string is enumerated
Chars == {"#", ":", "a", "b"}

RECURSIVE StringsOfLen(_)
StringsOfLen(n) ==
    IF n = 0 THEN {<<>>}
    ELSE {Append(s, c) : s \in StringsOfLen(n - 1), c \in Chars}

Strings == UNION {StringsOfLen(n) : n \in 0..MaxLen}

\* Python's None (an absent canonical_alias)
None == <<"None">>

(***************************************************************************)
(* str.index(ch): the first position of ch (1-based), 0 when absent, where *)
(* Python raises ValueError.                                               *)
(***************************************************************************)
index(s, ch) ==
    IF \E i \in 1..Len(s) : s[i] = ch
    THEN CHOOSE i \in 1..Len(s) : s[i] = ch /\ \A j \in 1..(i - 1) : s[j] # ch
    ELSE 0

\* str.islower(): some cased character, and no cased character in upper case
LowerChars == {"a", "b", "x", "y"}
UpperChars == {"A", "B", "X", "Y"}
islower(s) ==
    /\ \E i \in 1..Len(s) : s[i] \in LowerChars
    /\ \A i \in 1..Len(s) : s[i] \notin UpperChars

(***************************************************************************)
(* What a call returns: err is "" for a normal return and the exception's  *)
(* class otherwise; val is the value returned.                             *)
(***************************************************************************)
Return(v) == [err |-> "", msg |-> "", val |-> v]
Raise(e, m) == [err |-> e, msg |-> m, val |-> <<>>]

(***************************************************************************)
(* AltAliasBot._get_localpart                                              *)
(***************************************************************************)
_get_localpart(alias) ==
    IF alias = None THEN Raise("TypeError", "object of type 'NoneType' has no len()")
    ELSE IF Len(alias) = 0 THEN Raise("ValueError", "Alias is empty")
    ELSE IF alias[1] # "#" THEN Raise("ValueError", "Aliases start with #")
    ELSE LET sep == index(alias, ":") IN
         IF sep = 0 THEN Raise("ValueError", "Alias must contain domain separator")
         ELSE IF sep = Len(alias) THEN Raise("ValueError", "Alias must contain domain")
         ELSE Return(SubSeq(alias, 2, sep - 1))

(***************************************************************************)
(* AltAliasBot._localpart_matches: only ValueError is caught.              *)
(***************************************************************************)
_localpart_matches(alias, equal_to) ==
    LET localpart == _get_localpart(alias) IN
    IF localpart.err = "" THEN Return(equal_to = localpart.val)
    ELSE IF localpart.err = "ValueError" THEN Return(FALSE)
    ELSE localpart

(***************************************************************************)
(* re.compile on the pattern syntax the model covers: a literal character, *)
(* "." (any character), either followed by "*" (zero or more), and "(",    *)
(* which opens a group that nothing here closes.  A compiled pattern keeps *)
(* its source string (Pattern.pattern) beside its atoms.  re.error is      *)
(* raised for "*" with nothing to repeat, for "**" (multiple repeat) and   *)
(* for an unterminated group; the group's body is parsed first, so an      *)
(* error in it is the one raised.                                          *)
(***************************************************************************)
RECURSIVE parse(_, _, _)
parse(pattern, i, atoms) ==
    IF i > Len(pattern) THEN Return(atoms)
    ELSE IF pattern[i] = "("
         THEN LET group == parse(pattern, i + 1, <<>>) IN
              IF group.err # "" THEN group
              ELSE Raise("re.error", "missing ), unterminated subpattern")
    ELSE IF pattern[i] = "*" THEN Raise("re.error", "nothing to repeat")
    ELSE IF i < Len(pattern) /\ pattern[i + 1] = "*"
         THEN IF i + 1 < Len(pattern) /\ pattern[i + 2] = "*"
              THEN Raise("re.error", "multiple repeat")
              ELSE parse(pattern, i + 2, Append(atoms, [ch |-> pattern[i], star |-> TRUE]))
    ELSE parse(pattern, i + 1, Append(atoms, [ch |-> pattern[i], star |-> FALSE]))

re_compile(pattern) ==
    LET p == parse(pattern, 1, <<>>) IN
    IF p.err = "" THEN Return([pattern |-> pattern, atoms |-> p.val]) ELSE p

\* Pattern.fullmatch: the whole string is matched, with backtracking over "*"
RECURSIVE match(_, _, _, _)
match(atoms, i, s, j) ==
    IF i > Len(atoms) THEN j > Len(s)
    ELSE LET a == atoms[i]
             here == j <= Len(s) /\ (a.ch = "." \/ a.ch = s[j])
         IN  IF a.star
             THEN match(atoms, i + 1, s, j) \/ (here /\ match(atoms, i, s, j + 1))
             ELSE here /\ match(atoms, i + 1, s, j + 1)

fullmatch(regex, s) == match(regex.atoms, 1, s, 1)

(***************************************************************************)
(* The values the model draws its inputs from.                             *)
(***************************************************************************)
Rooms == {"!r1", "!r2"}

\* "#a.*:x" and "#b:.*" compile; "(a" does not
PatternPool == { <<"#", "a", ".", "*", ":", "x">>, <<"#", "b", ":", ".", "*">>, <<"(", "a">> }

\* the aliases asked to be published
AliasPool == { <<"#", "a", ":", "x">>, <<"#", "A", ":", "y">>,
               <<"#", "b", ":", "x">>, <<"#", "a", "b", ":", "x">> }

\* the canonical alias a room may have: none, well-formed ones, the empty string
CanonicalPool == { None, <<>>, <<"#", "a", ":", "x">>, <<"#", "b", ":", "y">> }

\* the alternate aliases a room may already have ("b:x" lacks its "#")
AltPool == { <<"#", "a", ":", "y">>, <<"#", "A", ":", "x">>, <<"b", ":", "x">> }

\* the lists of at most n elements of S, none listed twice
RECURSIVE SeqsUpTo(_, _)
SeqsUpTo(S, n) ==
    IF n = 0 THEN {<<>>}
    ELSE LET shorter == SeqsUpTo(S, n - 1) IN
         shorter \cup UNION { { Append(q, x) : x \in S \ {q[i] : i \in 1..Len(q)} } :
                                q \in {r \in shorter : Len(r) = n - 1} }

\* CanonicalAliasStateEventContent
Contents == [canonical_alias : CanonicalPool, alt_aliases : SeqsUpTo(AltPool, MaxAlt)]

\* CanonicalAliasStateEventContent(): no canonical alias, no alternate aliases
EmptyContent == [canonical_alias |-> None, alt_aliases |-> <<>>]

\* a room without an m.room.canonical_alias event (get_state_event raises MNotFound)
NotFound == [found |-> FALSE, content |-> EmptyContent]

(***************************************************************************)
(* AltAliasBot._is_allowed.  The room's patterns are tried in order under  *)
(* timeout(); timer = k > 0 is the run in which SIGALRM arrives while the  *)
(* k-th pattern is being matched (raise_timeout raises TimeoutError there, *)
(* and nothing catches it), timer = 0 the run in which it does not arrive. *)
(***************************************************************************)
RECURSIVE match_formats(_, _, _, _)
match_formats(formats, i, alias, timer) ==
    IF i > Len(formats) THEN Return(FALSE)
    ELSE IF timer = i THEN Raise("TimeoutError", "")
    ELSE IF fullmatch(formats[i], alias) THEN Return(TRUE)
    ELSE match_formats(formats, i + 1, alias, timer)

RECURSIVE match_alt_aliases(_, _, _)
match_alt_aliases(alt_aliases, i, localpart) ==
    IF i > Len(alt_aliases) THEN Return(FALSE)
    ELSE LET m == _localpart_matches(alt_aliases[i], localpart) IN
         IF m.err # "" THEN m
         ELSE IF m.val THEN Return(TRUE)
         ELSE match_alt_aliases(alt_aliases, i + 1, localpart)

\* _is_allowed with "if not cfg.formats" taken for "no entry"
_is_allowed_empty_as_missing(room_id, alias, existing_event, timer) ==
    IF room_id \notin DOMAIN _rooms \/ _rooms[room_id] = <<>>
    THEN LET localpart == _get_localpart(alias) IN
         IF localpart.err # "" THEN localpart
         ELSE LET c == _localpart_matches(existing_event.canonical_alias, localpart.val) IN
              IF c.err # "" THEN c
              ELSE IF c.val THEN Return(TRUE)
              ELSE match_alt_aliases(existing_event.alt_aliases, 1, localpart.val)
    ELSE match_formats(_rooms[room_id], 1, alias, timer)

_is_allowed(room_id, alias, existing_event, timer) ==
    IF room_id \notin DOMAIN _rooms
    THEN LET localpart == _get_localpart(alias) IN
         IF localpart.err # "" THEN localpart
         ELSE LET c == _localpart_matches(existing_event.canonical_alias, localpart.val) IN
              IF c.err # "" THEN c
              ELSE IF c.val THEN Return(TRUE)
              ELSE match_alt_aliases(existing_event.alt_aliases, 1, localpart.val)
    ELSE match_formats(_rooms[room_id], 1, alias, timer)

\* a dict with no key
EmptyDict == [k \in {} |-> <<>>]

\* d[k] = v
SetItem(d, k, v) == [x \in DOMAIN d \cup {k} |-> IF x = k THEN v ELSE d[x]]

\* the number of patterns held by a room-id -> patterns mapping
RECURSIVE CountPatterns(_, _)
CountPatterns(d, keys) ==
    IF keys = {} THEN 0
    ELSE LET k == CHOOSE x \in keys : TRUE IN Len(d[k]) + CountPatterns(d, keys \ {k})

\* the "rooms" documents a configuration file may hold, for the rooms in R: any
\* of the rooms listed, each with a list of patterns (a pattern once per list),
\* at most MaxPatterns patterns in all
ConfigsOf(R) ==
    UNION { { c \in [D -> SeqsUpTo(PatternPool, MaxPatterns)] :
                CountPatterns(c, D) <= MaxPatterns } : D \in SUBSET R }

Configs == ConfigsOf(Rooms)

(***************************************************************************)
(* AltAliasBot.on_external_config_update: self._rooms is built anew from   *)
(* the configuration loaded; a pattern that raises re.error is logged and  *)
(* left out.                                                               *)
(***************************************************************************)
RECURSIVE compile_formats(_, _, _)
compile_formats(patterns, i, formats) ==
    IF i > Len(patterns) THEN formats
    ELSE LET c == re_compile(patterns[i]) IN
         compile_formats(patterns, i + 1,
                         IF c.err = "" THEN Append(formats, c.val) ELSE formats)

load_rooms(cfg) == [room_id \in DOMAIN cfg |-> compile_formats(cfg[room_id], 1, <<>>)]

(***************************************************************************)
(* The configuration document and the events of its handlers.              *)
(***************************************************************************)
Users == {"@admin:x", "@user:x"}

\* config["admins"] as a configuration file may give it
AdminSets == { {"@admin:x"} }

\* the whole configuration: "admins", "require_lowercase", "rooms"
FullConfigs == [admins : AdminSets, require_lowercase : {TRUE}, rooms : Configs]

\* what get_state_event(room, m.room.power_levels) gives: the sender's level and
\* the level m.room.canonical_alias needs, or an exception
PowerLevels ==
    [err : {""}, user_level : {0, 50, 100}, event_level : {50}]
        \cup [err : {"MatrixRequestError"}, user_level : {0}, event_level : {0}]

\* no handler has run
NoEvent == [op |-> "", outcome |-> ""]

\* the configuration before any is loaded
NoConfig == [admins |-> {}, require_lowercase |-> TRUE, rooms |-> EmptyDict]

(***************************************************************************)
(* The helpers called on their own, on every input within the bounds.      *)
(***************************************************************************)
NoCall == [fn |-> "", room |-> "", alias |-> <<>>, existing_event |-> EmptyContent,
           timer |-> 0, ret |-> Return(<<>>)]

NoRules == config = NoConfig /\ _rooms = EmptyDict /\ last = NoEvent
NoServer == server = [r \in Rooms |-> NotFound]
NoHandlers == pc = EmptyDict /\ evt = EmptyDict /\ content = EmptyDict /\ reply = EmptyDict

InitLocalpart ==
    /\ NoRules /\ NoServer /\ NoHandlers
    /\ \E s \in Strings : call = [NoCall EXCEPT !.fn = "pending", !.alias = s]

call_get_localpart ==
    /\ call.fn = "pending"
    /\ call' = [call EXCEPT !.fn = "_get_localpart", !.ret = _get_localpart(call.alias)]
    /\ UNCHANGED <<config, _rooms, last, server, pc, evt, content, reply>>

SpecLocalpart == InitLocalpart /\ [][call_get_localpart]_vars

(***************************************************************************)
(* The form "#local:domain" stated on its own: the splits of a string into *)
(* "#", a local part free of ":", ":", and a domain.                       *)
(***************************************************************************)
Splits(s) ==
    { k \in 2..Len(s) : s[1] = "#" /\ s[k] = ":" /\ \A j \in 2..(k - 1) : s[j] # ":" }
LocalAt(s, k) == SubSeq(s, 2, k - 1)
DomainAt(s, k) == SubSeq(s, k + 1, Len(s))
WellFormed(s) ==
    s # None /\ \E k \in Splits(s) : LocalAt(s, k) # <<>> /\ DomainAt(s, k) # <<>>

\* C7: localpart extraction returns local for every "#local:domain" with local
\* and domain non-empty, and raises ValueError for every other string (the empty
\* one, one without "#", without ":", with an empty localpart or an empty domain).
C7_ExtractionTotal ==
    call.fn = "_get_localpart" =>
        IF WellFormed(call.alias)
        THEN /\ call.ret.err = ""
             /\ \E k \in Splits(call.alias) : call.ret.val = LocalAt(call.alias, k)
        ELSE call.ret.err = "ValueError"

(***************************************************************************)
(* _is_allowed called on its own: room "!r1" has any rule set a reload can *)
(* leave it with, or none; "!r2" has none.                                 *)
(***************************************************************************)
InitAllowed ==
    /\ NoServer /\ NoHandlers
    /\ config = NoConfig /\ last = NoEvent
    /\ \E cfg \in ConfigsOf({"!r1"}) : _rooms = load_rooms(cfg)
    /\ \E room_id \in Rooms, alias \in AliasPool, existing_event \in Contents :
          call = [NoCall EXCEPT !.fn = "pending", !.room = room_id, !.alias = alias,
                                !.existing_event = existing_event]

call_is_allowed(timer) ==
    /\ call.fn = "pending"
    /\ call' = [call EXCEPT !.fn = "_is_allowed", !.timer = timer,
                  !.ret = _is_allowed(call.room, call.alias, call.existing_event, timer)]
    /\ UNCHANGED <<config, _rooms, last, server, pc, evt, content, reply>>

NextAllowed == \E timer \in 0..MaxPatterns : call_is_allowed(timer)

SpecAllowed == InitAllowed /\ [][NextAllowed]_vars

\* the localpart of a string of the form "#local:domain"
LocalOf(s) == LocalAt(s, CHOOSE k \in Splits(s) : TRUE)

\* the room's existing aliases: the canonical one, when there is one, and the others
ExistingAliases(c) ==
    (IF c.canonical_alias = None THEN {} ELSE {c.canonical_alias})
        \cup {c.alt_aliases[i] : i \in 1..Len(c.alt_aliases)}

SameLocalpartExists(alias, c) ==
    \E e \in ExistingAliases(c) : Splits(e) # {} /\ LocalOf(e) = LocalOf(alias)

\* C2: in a room with no entry in the room-rules mapping, for every well-formed
\* alias and every canonical-alias record (canonical alias present or absent),
\* _is_allowed returns True if the alias's localpart equals that of the canonical
\* alias or of an alternate alias, and returns False otherwise.
C2_LocalpartFallback ==
    (call.fn = "_is_allowed" /\ call.room \notin DOMAIN _rooms) =>
        /\ call.ret.err = ""
        /\ call.ret.val = SameLocalpartExists(call.alias, call.existing_event)

\* what each pattern of PatternPool matches among AliasPool, written out
Matches(pattern, alias) ==
    \/ pattern = <<"#", "a", ".", "*", ":", "x">>
         /\ alias \in { <<"#", "a", ":", "x">>, <<"#", "a", "b", ":", "x">> }
    \/ pattern = <<"#", "b", ":", ".", "*">> /\ alias = <<"#", "b", ":", "x">>

\* C3: in a room with an entry in the room-rules mapping, when no timeout occurs,
\* _is_allowed returns True iff some pattern of the room fully matches the alias,
\* whatever the room's existing aliases are; an entry with no pattern denies all.
C3_PatternsDecide ==
    (call.fn = "_is_allowed" /\ call.room \in DOMAIN _rooms) =>
        LET formats == _rooms[call.room] IN
        /\ call.timer = 0 => call.ret.err = ""
        /\ call.ret.err = "" =>
             call.ret.val = (\E i \in 1..Len(formats) : Matches(formats[i].pattern, call.alias))

\* an entry with no pattern denies an alias that localpart equality would allow
C3_Witness ==
    /\ call.fn = "_is_allowed" /\ call.room \in DOMAIN _rooms
    /\ _rooms[call.room] = <<>>
    /\ SameLocalpartExists(call.alias, call.existing_event)
    /\ call.ret.err = "" /\ call.ret.val = FALSE

(***************************************************************************)
(* The handlers that read and write the configuration.                     *)
(***************************************************************************)
\* save_rooms with "if info.formats": a room without patterns is not written
save_rooms_skip_empty(rooms) ==
    [room_id \in {r \in DOMAIN rooms : rooms[r] # <<>>} |->
        [i \in 1..Len(rooms[room_id]) |-> rooms[room_id][i].pattern]]

\* AltAliasBot.save_rooms: what is written under "rooms"
save_rooms(rooms) ==
    [room_id \in DOMAIN rooms |->
        [i \in 1..Len(rooms[room_id]) |-> rooms[room_id][i].pattern]]

\* on_external_config_update without "self._rooms = {}": rooms no longer listed stay
on_external_config_update_patching(cfg) ==
    /\ config' = cfg
    /\ _rooms' = [room_id \in DOMAIN cfg.rooms \cup DOMAIN _rooms |->
                    IF room_id \in DOMAIN cfg.rooms
                    THEN load_rooms(cfg.rooms)[room_id] ELSE _rooms[room_id]]
    /\ last' = [op |-> "reload", outcome |-> "ok"]
    /\ UNCHANGED <<server, pc, evt, content, reply, call>>

\* AltAliasBot.on_external_config_update, with cfg the configuration loaded
on_external_config_update(cfg) ==
    /\ config' = cfg
    /\ _rooms' = load_rooms(cfg.rooms)
    /\ last' = [NoEvent EXCEPT !.op = "reload", !.outcome = "ok"]
    /\ UNCHANGED <<server, pc, evt, content, reply, call>>

\* The framework runs the handler of every event as a coroutine of its own, and
\* the handlers interleave at their awaits.  The allow handlers are told apart
\* by evt.sender: a sender has one allow request in flight at most.

\* what evt holds for a sender with no allow request in flight
NoRequest == [room_id |-> "", regex |-> <<>>]

\* the handler's coroutine has returned or raised
ended(sender) ==
    /\ pc' = [pc EXCEPT ![sender] = "idle"]
    /\ evt' = [evt EXCEPT ![sender] = NoRequest]

\* the permission check with the comparison of the two levels turned round
check_permission_reversed(powers) ==
    IF powers.err # "" THEN powers.err
    ELSE IF powers.user_level > powers.event_level
         THEN "You don't have the permission to manage aliases in this room"
    ELSE ""

\* allow_format, what the answer of the power-level request leads to: "" (go on),
\* the refusal, or the exception the request raised
check_permission(powers) ==
    IF powers.err # "" THEN powers.err
    ELSE IF powers.user_level < powers.event_level
         THEN "You don't have the permission to manage aliases in this room"
    ELSE ""

\* the update of self._rooms keeping the pattern string before it is compiled
add_format_uncompiled(room_id, regex) ==
    LET had == IF room_id \in DOMAIN _rooms THEN _rooms ELSE SetItem(_rooms, room_id, <<>>)
        c == re_compile(regex)
        kept == [had EXCEPT ![room_id] = Append(@, [pattern |-> regex, atoms |-> <<>>])]
    IN  IF c.err # "" THEN [err |-> c.err, rooms |-> kept]
        ELSE [err |-> "", rooms |-> [had EXCEPT ![room_id] = Append(@, c.val)]]

\* allow_format, the update of self._rooms: the room's entry is looked up, and
\* made when missing, before the pattern is compiled
add_format(room_id, regex) ==
    LET had == IF room_id \in DOMAIN _rooms THEN _rooms ELSE SetItem(_rooms, room_id, <<>>)
        c == re_compile(regex)
    IN  IF c.err # "" THEN [err |-> c.err, rooms |-> had]
        ELSE [err |-> "", rooms |-> [had EXCEPT ![room_id] = Append(@, c.val)]]

\* allow_format from the room lookup to its end: nothing is awaited between the
\* lookup, re.compile, the append and save_rooms, and the handler ends with the
\* reply or with re.error
append_and_save(sender, room_id, regex) ==
    LET added == add_format(room_id, regex)
        event == [NoEvent EXCEPT !.op = "allow"]
    IN  /\ CountPatterns(added.rooms, DOMAIN added.rooms) <= MaxPatterns
        /\ _rooms' = added.rooms
        /\ IF added.err # ""
           THEN /\ last' = [event EXCEPT !.outcome = added.err]
                /\ UNCHANGED config
           ELSE /\ config' = [config EXCEPT !.rooms = save_rooms(added.rooms)]
                /\ last' = [event EXCEPT !.outcome = "Added as an allowed alias format"]
        /\ ended(sender)

\* AltAliasBot.allow_format up to its first await: a sender in "admins" goes on
\* to the update at once; for any other sender the power levels are requested
\* and the handler is suspended until they arrive
allow_format(room_id, sender, regex) ==
    /\ pc[sender] = "idle"
    /\ UNCHANGED <<server, content, reply, call>>
    /\ IF sender \in config.admins
       THEN append_and_save(sender, room_id, regex)
       ELSE /\ pc' = [pc EXCEPT ![sender] = "get_power_levels"]
            /\ evt' = [evt EXCEPT ![sender] = [room_id |-> room_id, regex |-> regex]]
            /\ UNCHANGED <<config, _rooms, last>>

\* allow_format from the answer of the power-level request on: the request's
\* exception ends the handler, a lower level is refused, and otherwise the
\* update is made to self._rooms as it is now
get_power_levels_returns(sender, powers) ==
    /\ pc[sender] = "get_power_levels"
    /\ UNCHANGED <<server, content, reply, call>>
    /\ LET denied == check_permission(powers) IN
       IF denied # ""
       THEN /\ last' = [NoEvent EXCEPT !.op = "allow", !.outcome = denied]
            /\ ended(sender)
            /\ UNCHANGED <<config, _rooms>>
       ELSE append_and_save(sender, evt[sender].room_id, evt[sender].regex)

\* start(): the configuration is loaded once; no handler is running
Init ==
    /\ NoServer /\ call = NoCall
    /\ pc = [sender \in Users |-> "idle"]
    /\ evt = [sender \in Users |-> NoRequest]
    /\ content = EmptyDict /\ reply = EmptyDict
    /\ \E cfg \in FullConfigs :
          /\ config = cfg
          /\ _rooms = load_rooms(cfg.rooms)
          /\ last = [NoEvent EXCEPT !.op = "reload", !.outcome = "ok"]

Next ==
    \/ \E cfg \in FullConfigs : on_external_config_update(cfg)
    \/ \E room_id \in Rooms, sender \in Users, regex \in PatternPool :
          allow_format(room_id, sender, regex)
    \/ \E sender \in Users, powers \in PowerLevels : get_power_levels_returns(sender, powers)

Spec == Init /\ [][Next]_vars

(***************************************************************************)
(* AltAliasBot.add_alias, one action per stretch between two awaits:       *)
(* handlers of several events interleave where they await the homeserver.  *)
(***************************************************************************)
\* the publish handlers that may be running at once
Handlers == {"h1", "h2"}

\* the room the publish requests are sent in
PublishRooms == {"!r1"}

\* the aliases asked to be published, one of them without its "#"
PublishAliases == { <<"#", "a", ":", "x">>, <<"#", "a", "b", ":", "x">>,
                    <<"#", "A", ":", "y">>, <<"b", ":", "x">> }

NoAlias == [room_id |-> "", alias |-> <<>>]

\* the handler ends: with a reply, with an exception, or (reply "") with neither
finish(h, text) ==
    /\ pc' = [pc EXCEPT ![h] = "done"]
    /\ reply' = [reply EXCEPT ![h] = text]

\* add_alias up to the first await: _validate_alias checks the alias's syntax
\* and case, then asks the homeserver what room the alias points to
add_alias(h, room_id, alias) ==
    /\ pc[h] \in {"idle", "done"}
    /\ evt' = [evt EXCEPT ![h] = [room_id |-> room_id, alias |-> alias]]
    /\ content' = [content EXCEPT ![h] = EmptyContent]
    /\ LET localpart == _get_localpart(alias) IN
       IF localpart.err # ""
       THEN finish(h, "That is not a valid room alias")
       ELSE IF ~islower(localpart.val) /\ config.require_lowercase
       THEN finish(h, "That alias localpart is not in lowercase")
       ELSE /\ pc' = [pc EXCEPT ![h] = "get_room_alias"]
            /\ reply' = [reply EXCEPT ![h] = ""]
    /\ UNCHANGED <<config, _rooms, last, server, call>>

\* _validate_alias from the answer of get_room_alias on: the room the alias
\* points to, MNotFound or another exception
get_room_alias_returns(h, result) ==
    /\ pc[h] = "get_room_alias"
    /\ IF result = "MNotFound" THEN finish(h, "That alias does not exist")
       ELSE IF result = "Exception" THEN finish(h, "Failed to get alias info")
       ELSE IF result # evt[h].room_id
       THEN finish(h, "That alias does not point to this room")
       ELSE /\ pc' = [pc EXCEPT ![h] = "get_state_event"]
            /\ UNCHANGED reply
    /\ UNCHANGED <<config, _rooms, last, server, evt, content, call>>

\* _get_existing_aliases: the content get_state_event gives (an empty one after
\* MNotFound), or None, with the reply made, after another error
_get_existing_aliases(room_id, result) ==
    IF result = "MatrixRequestError"
    THEN [is_none |-> TRUE, reply |-> "Failed to get current aliases", value |-> EmptyContent]
    ELSE IF result = "Exception"
    THEN [is_none |-> TRUE, value |-> EmptyContent,
          reply |-> "Failed to get current aliases (see logs for more details)"]
    ELSE IF server[room_id].found
    THEN [is_none |-> FALSE, reply |-> "", value |-> server[room_id].content]
    ELSE [is_none |-> FALSE, reply |-> "", value |-> EmptyContent]

\* add_alias from the answer of get_state_event to the await of send_state_event:
\* the alias is looked up among those published, _is_allowed decides, and
\* _publish_aliases appends the alias to the copy it then sends
get_state_event_returns(h, result, timer) ==
    /\ pc[h] = "get_state_event"
    /\ LET existing_content == _get_existing_aliases(evt[h].room_id, result) IN
       IF existing_content.is_none
       THEN finish(h, existing_content.reply) /\ UNCHANGED content
       ELSE LET c == existing_content.value
                published == \E i \in 1..Len(c.alt_aliases) : c.alt_aliases[i] = evt[h].alias
                allowed == _is_allowed(evt[h].room_id, evt[h].alias, c, timer)
            IN  IF published
                THEN finish(h, "That alias is already published in this room")
                     /\ UNCHANGED content
                ELSE IF allowed.err # ""
                THEN finish(h, allowed.err) /\ UNCHANGED content
                ELSE IF ~allowed.val
                THEN finish(h, "That alias is not allowed in this room")
                     /\ UNCHANGED content
                ELSE /\ Len(c.alt_aliases) < MaxAlt
                     /\ content' = [content EXCEPT ![h] =
                                      [c EXCEPT !.alt_aliases = Append(@, evt[h].alias)]]
                     /\ pc' = [pc EXCEPT ![h] = "send_state_event"]
                     /\ UNCHANGED reply
    /\ UNCHANGED <<config, _rooms, last, server, evt, call>>

\* _publish_aliases from the answer of send_state_event on: the homeserver has
\* stored the content sent, or refused it
send_state_event_returns(h, result) ==
    /\ pc[h] = "send_state_event"
    /\ IF result = "ok"
       THEN /\ server' = [server EXCEPT ![evt[h].room_id] =
                            [found |-> TRUE, content |-> content[h]]]
            /\ finish(h, "")
       ELSE /\ UNCHANGED server
            /\ finish(h, CASE result = "MForbidden" ->
                                "I don't have the permission to publish aliases :("
                           [] result = "MatrixRequestError" -> "Failed to publish alias"
                           [] OTHER -> "Failed to publish alias (see logs for more details)")
    /\ UNCHANGED <<config, _rooms, last, evt, content, call>>

\* the configurations and rooms the publish requests are checked in
PublishConfigs ==
    [admins : AdminSets, require_lowercase : BOOLEAN,
     rooms : { c \in ConfigsOf(PublishRooms) : \A r \in DOMAIN c : Len(c[r]) <= 1 }]

PublishServers ==
    {NotFound} \cup
    { [found |-> TRUE, content |-> [canonical_alias |-> a, alt_aliases |-> <<>>]] :
        a \in {None, <<"#", "a", ":", "y">>} }

InitPublish ==
    /\ call = NoCall
    /\ \E cfg \in PublishConfigs :
          /\ config = cfg
          /\ _rooms = load_rooms(cfg.rooms)
          /\ last = [op |-> "reload", outcome |-> "ok"]
    /\ \E s \in PublishServers : server = [r \in Rooms |-> IF r \in PublishRooms THEN s ELSE NotFound]
    /\ pc = [h \in Handlers |-> "idle"]
    /\ evt = [h \in Handlers |-> NoAlias]
    /\ content = [h \in Handlers |-> EmptyContent]
    /\ reply = [h \in Handlers |-> ""]

NextPublish ==
    \E h \in Handlers :
        \/ \E room_id \in PublishRooms, alias \in PublishAliases : add_alias(h, room_id, alias)
        \/ \E result \in Rooms \cup {"MNotFound", "Exception"} : get_room_alias_returns(h, result)
        \/ \E result \in {"ok", "MatrixRequestError", "Exception"}, timer \in 0..1 :
              get_state_event_returns(h, result, timer)
        \/ \E result \in {"ok", "MForbidden", "MatrixRequestError", "Exception"} :
              send_state_event_returns(h, result)

SpecPublish == InitPublish /\ [][NextPublish]_vars

\* the patterns of PatternPool that re.compile rejects, written out
InvalidPatterns == { <<"(", "a">> }

\* the pattern strings of a list of compiled patterns
Strs(formats) == [i \in 1..Len(formats) |-> formats[i].pattern]

\* the pattern strings held by self._rooms, and those stored under "rooms"
Held(rooms) == UNION { {rooms[r][i].pattern : i \in 1..Len(rooms[r])} : r \in DOMAIN rooms }
Stored(cfg) == UNION { {cfg.rooms[r][i] : i \in 1..Len(cfg.rooms[r])} : r \in DOMAIN cfg.rooms }

Refusal == "You don't have the permission to manage aliases in this room"
Added == "Added as an allowed alias format"

\* the entries self._rooms had are as they were
EntriesKept == \A r \in DOMAIN _rooms : r \in DOMAIN _rooms' /\ _rooms'[r] = _rooms[r]

\* C4: an allow request whose pattern does not compile is rejected and leaves the
\* persisted configuration as it was, and no step of any handler puts a pattern
\* that does not compile into self._rooms; only a reload of a configuration file
\* that lists such a pattern makes it part of the persisted "rooms".
C4_InvalidNeverAdded ==
    [][ /\ Held(_rooms') \cap InvalidPatterns = {}
        /\ (last'.op = "allow" \/ pc' # pc) =>
              /\ (Stored(config') \cap InvalidPatterns) \subseteq Stored(config)
              /\ \A sender \in Users :
                   /\ \A room_id \in Rooms, regex \in InvalidPatterns :
                         (sender \in config.admins /\ allow_format(room_id, sender, regex)) =>
                             /\ last'.outcome = "re.error"
                             /\ config' = config /\ EntriesKept
                   /\ \A powers \in PowerLevels :
                         (evt[sender].regex \in InvalidPatterns
                            /\ get_power_levels_returns(sender, powers)) =>
                             /\ last'.outcome # Added
                             /\ config' = config /\ EntriesKept
      ]_vars

\* an admin's pattern was rejected by re.compile
C4_Witness == last.op = "allow" /\ last.outcome = "re.error"

\* the patterns of a configured list that compile, in their order
Compiling(patterns) == SelectSeq(patterns, LAMBDA q : q \notin InvalidPatterns)

\* C5: after every reload self._rooms is determined by the configuration loaded:
\* an entry for exactly the rooms listed under "rooms", each holding the patterns
\* of the room's list that compile, in the configured order; a pattern that does
\* not compile is left out and the reload goes on.
C5_ReloadRebuilds ==
    last.op = "reload" =>
        /\ last.outcome = "ok"
        /\ DOMAIN _rooms = DOMAIN config.rooms
        /\ \A r \in DOMAIN config.rooms : Strs(_rooms[r]) = Compiling(config.rooms[r])

\* a reload of a list with a pattern that does not compile between two that do
C5_Witness ==
    /\ last.op = "reload"
    /\ \E r \in DOMAIN config.rooms :
          /\ Len(config.rooms[r]) = 3 /\ config.rooms[r][2] \in InvalidPatterns
          /\ Len(_rooms[r]) = 2
    /\ DOMAIN config.rooms # Rooms

\* C6: in every state reached by reloads and allow requests, save_rooms followed
\* by a reload of what it wrote gives the same rooms, each with the same pattern
\* strings in the same order.
C6_SaveReloadRoundTrip ==
    LET reloaded == load_rooms(save_rooms(_rooms)) IN
    /\ DOMAIN reloaded = DOMAIN _rooms
    /\ \A r \in DOMAIN _rooms : Strs(reloaded[r]) = Strs(_rooms[r])

\* after an allow request that saved: two patterns in one room, and another room
\* whose entry holds none
C6_Witness ==
    /\ last.op = "allow" /\ last.outcome = Added
    /\ config.rooms = save_rooms(_rooms)
    /\ \E r \in DOMAIN _rooms : Len(_rooms[r]) >= 2 /\ _rooms[r][1] # _rooms[r][2]
    /\ \E r \in DOMAIN _rooms : _rooms[r] = <<>>
    /\ C6_SaveReloadRoundTrip

\* C8: an allow request changes self._rooms or the persisted configuration only
\* if the sender is in "admins" or has at least the power level the canonical-alias
\* state event needs; a sender with a lower level is answered with the refusal and
\* changes nothing; for a sender in "admins" the power levels are not requested.
C8_AllowNeedsPermission ==
    [][ (last'.op = "allow" \/ pc' # pc) =>
        \A sender \in Users :
          /\ \A room_id \in Rooms, regex \in PatternPool :
                allow_format(room_id, sender, regex) =>
                    IF sender \in config.admins
                    THEN pc'[sender] = "idle" /\ last'.outcome \in {Added, "re.error"}
                    ELSE pc'[sender] = "get_power_levels" /\ UNCHANGED <<_rooms, config>>
          /\ \A powers \in PowerLevels :
                get_power_levels_returns(sender, powers) =>
                    LET level == powers.err = "" /\ powers.user_level >= powers.event_level
                    IN  /\ ~level => UNCHANGED <<_rooms, config>>
                        /\ (powers.err = "" /\ powers.user_level < powers.event_level)
                              => last'.outcome = Refusal
                        /\ level => last'.outcome \in {Added, "re.error"}
      ]_vars

\* a sender outside "admins" was refused
C8_Witness == last.op = "allow" /\ last.outcome = Refusal

\* C10: an allow request that fails (permission refused, or the pattern does not
\* compile) leaves self._rooms exactly as it was.
C10_FailedAllowChangesNothing ==
    [][ (last'.op = "allow" /\ last'.outcome \in {Refusal, "re.error"}) => _rooms' = _rooms ]_vars

NotAllowed == "That alias is not allowed in this room"

\* C1: when the room has patterns and the time budget elapses before any of them
\* has matched, _is_allowed returns False and raises nothing, so add_alias answers
\* that the alias is not allowed and sends no state event.
C1_TimeoutDenies ==
    [][ \A h \in Handlers :
          ( /\ pc[h] = "get_state_event"
            /\ evt[h].room_id \in DOMAIN _rooms
            /\ _rooms[evt[h].room_id] # <<>>
            /\ get_state_event_returns(h, "ok", 1) )
          => /\ pc'[h] = "done"
             /\ server' = server
             /\ reply'[h] \in {NotAllowed, "That alias is already published in this room"}
      ]_vars

\* the aliases of a list
Elems(q) == {q[i] : i \in 1..Len(q)}

\* C9: the canonical-alias record is only ever appended to: however the handlers
\* of several publish requests interleave at their awaits, after a state event is
\* written every alternate alias the room had before the write is still there,
\* the alias asked for is there, and the canonical alias is the same.
C9_PublishOnlyAppends ==
    [][ \A h \in Handlers :
          (pc[h] = "send_state_event" /\ pc'[h] = "done" /\ reply'[h] = "")
          => LET before == server[evt[h].room_id].content
                 after == server'[evt[h].room_id].content
             IN  /\ Elems(before.alt_aliases) \subseteq Elems(after.alt_aliases)
                 /\ evt[h].alias \in Elems(after.alt_aliases)
                 /\ after.canonical_alias = before.canonical_alias
      ]_vars
====
